---------------------------- MODULE Spec2Model ----------------------------
(***************************************************************************)
(* The NodeResourcesAllocatable score plugin                               *)
(* (pkg/noderesources/allocatable.go): construction (NewAllocatable), the  *)
(* per-node weighted scorer (Score / resourceScorer / score) and the       *)
(* cross-node normalizer (NormalizeScore).                                 *)
(*                                                                         *)
(* Go's int64 is a two's-complement word whose arithmetic wraps.  TLC's    *)
(* integers are 32 bits wide, so the word is modelled with IntBits bits    *)
(* (a product of two words then still fits TLC's integers); every          *)
(* arithmetic step of the code is one of Add, Sub, Mul, Quo below and      *)
(* wraps exactly as the Go operator does at the word's width.              *)
(***************************************************************************)
EXTENDS Integers, Sequences, FiniteSets

\* Width of the machine word that stands for int64.
IntBits == 16

Modulus == 2 ^ IntBits

\* math.MaxInt64 and math.MinInt64 at the modelled width.
MaxInt64 == 2 ^ (IntBits - 1) - 1

MinInt64 == -(2 ^ (IntBits - 1))

\* The two's-complement value of the mathematical integer x.
Wrap(x) ==
    LET m == x % Modulus
    IN  IF m > MaxInt64 THEN m - Modulus ELSE m

\* Go's +, -, * on int64.
Add(a, b) == Wrap(a + b)

Sub(a, b) == Wrap(a - b)

Mul(a, b) == Wrap(a * b)

Abs(x) == IF x < 0 THEN -x ELSE x

\* The mathematical quotient truncated toward zero (b # 0).
TruncDiv(a, b) ==
    LET q == Abs(a) \div Abs(b)
    IN  IF (a < 0) # (b < 0) THEN -q ELSE q

\* Go's / on int64, b # 0: truncates toward zero; MinInt64 / -1 wraps.
Quo(a, b) == Wrap(TruncDiv(a, b))

\* framework.MinNodeScore and framework.MaxNodeScore.
MinNodeScore == 0

MaxNodeScore == 100

(***************************************************************************)
(* NormalizeScore                                                          *)
(***************************************************************************)

\* The scan for the highest score, starting from -math.MaxInt64.
RECURSIVE Highest(_, _)
Highest(scores, highest) ==
    IF scores = << >> THEN highest
    ELSE Highest(Tail(scores),
                 IF Head(scores).Score > highest THEN Head(scores).Score
                                                 ELSE highest)

\* The scan for the lowest score, starting from math.MaxInt64.
RECURSIVE Lowest(_, _)
Lowest(scores, lowest) ==
    IF scores = << >> THEN lowest
    ELSE Lowest(Tail(scores),
                IF Head(scores).Score < lowest THEN Head(scores).Score
                                               ELSE lowest)

\* A rescaling that leaves indistinguishable scores at their raw value.
RescaleKeepRaw(score, lowest, oldRange, newRange) ==
    IF oldRange = 0
    THEN score
    ELSE Add(Quo(Mul(Sub(score, lowest), newRange), oldRange), MinNodeScore)

\* The body of the second loop, for one element.
Rescale(score, lowest, oldRange, newRange) ==
    IF oldRange = 0
    THEN MinNodeScore
    ELSE Add(Quo(Mul(Sub(score, lowest), newRange), oldRange), MinNodeScore)

\* The score list after NormalizeScore; the call always returns nil.
NormalizeScore(scores) ==
    LET highest  == Highest(scores, -MaxInt64)
        lowest   == Lowest(scores, MaxInt64)
        oldRange == Sub(highest, lowest)
        newRange == Sub(MaxNodeScore, MinNodeScore)
    IN  [i \in 1..Len(scores) |->
            [Name  |-> scores[i].Name,
             Score |-> Rescale(scores[i].Score, lowest, oldRange, newRange)]]

(***************************************************************************)
(* NewAllocatable                                                          *)
(***************************************************************************)

\* config.Least, config.Most and the zero value of config.ModeType.
Least == "Least"

Most == "Most"

NoMode == ""

NoError == [Kind |-> "nil"]

NilPlugin == [Kind |-> "nil"]

NilArgs == [Kind |-> "nil"]

\* The map m after m[k] = v.
Put(m, k, v) ==
    [x \in DOMAIN m \cup {k} |-> IF x = k THEN v ELSE m[x]]

\* The built-in weights: common resource types, each of weight 1.
defaultResourcesToWeightMap == [r \in {"cpu", "memory"} |-> 1]

\* A test that lets a weight of 0 through.
invalidWeightNegativeOnly(weight) == weight < 0

\* The test of one resource's weight.
invalidWeight(weight) == weight <= 0

\* nil, or the error naming the first resource whose weight is not positive.
RECURSIVE validateResources(_)
validateResources(resources) ==
    IF resources = << >> THEN NoError
    ELSE IF invalidWeight(Head(resources).Weight)
         THEN [Kind   |-> "weight",
               Name   |-> Head(resources).Name,
               Weight |-> Head(resources).Weight]
         ELSE validateResources(Tail(resources))

\* validation.ValidateNodeResourcesAllocatableArgs: any supplied weight <= 0
\* fails, naming the resource and the weight.
ValidateNodeResourcesAllocatableArgs(args) == validateResources(args.Resources)

\* make(resourceToWeightMap) filled from args.Resources, a later entry of a
\* name overwriting an earlier one.
RECURSIVE FillWeightMap(_, _)
FillWeightMap(resources, resToWeightMap) ==
    IF resources = << >> THEN resToWeightMap
    ELSE FillWeightMap(Tail(resources),
                       Put(resToWeightMap, Head(resources).Name,
                           Head(resources).Weight))

\* What NewAllocatable(allocArgs) returns (plugin, err) and the arguments
\* object as the call leaves it (args.Mode is assigned in place).
NewAllocatableResult(allocArgs) ==
    IF allocArgs.Kind = "nil"
    THEN [plugin |-> [Kind |-> "Allocatable",
                      resourceToWeightMap |-> defaultResourcesToWeightMap,
                      mode |-> NoMode],
          err    |-> NoError,
          args   |-> allocArgs]
    ELSE IF allocArgs.Kind # "NodeResourcesAllocatableArgs"
    THEN [plugin |-> NilPlugin, err |-> [Kind |-> "type"], args |-> allocArgs]
    ELSE LET args == [allocArgs EXCEPT
                        !.Mode = IF @ = NoMode THEN Least ELSE @]
             err  == ValidateNodeResourcesAllocatableArgs(args)
         IN  IF err # NoError
             THEN [plugin |-> NilPlugin, err |-> err, args |-> args]
             ELSE [plugin |-> [Kind |-> "Allocatable",
                               resourceToWeightMap |->
                                   IF Len(args.Resources) > 0
                                   THEN FillWeightMap(args.Resources, << >>)
                                   ELSE defaultResourcesToWeightMap,
                               mode |-> args.Mode],
                   err    |-> NoError,
                   args   |-> args]

(***************************************************************************)
(* resourceScorer and score                                                *)
(***************************************************************************)

\* allocable[resource]: a missing key reads as 0.
Lookup(allocable, resource) ==
    IF resource \in DOMAIN allocable THEN allocable[resource] ELSE 0

score(capacity, mode) ==
    CASE mode = Least -> Mul(-1, capacity)
      [] mode = Most  -> capacity
      [] OTHER        -> 0

\* One iteration of the loop over resToWeightMap; acc holds the closure's
\* locals nodeScore and weightSum.
LoopBody(acc, resource, resToWeightMap, mode, allocable) ==
    LET weight        == resToWeightMap[resource]
        resourceScore == score(Lookup(allocable, resource), mode)
    IN  [nodeScore |-> Add(acc.nodeScore, Mul(resourceScore, weight)),
         weightSum |-> Add(acc.weightSum, weight)]

\* The locals after the loop has visited the resources in the given order.
RECURSIVE Loop(_, _, _, _, _)
Loop(order, acc, resToWeightMap, mode, allocable) ==
    IF order = << >> THEN acc
    ELSE Loop(Tail(order),
              LoopBody(acc, Head(order), resToWeightMap, mode, allocable),
              resToWeightMap, mode, allocable)

\* return nodeScore / weightSum: an integer division by zero panics.
Return(acc) ==
    IF acc.weightSum = 0
    THEN [panic |-> TRUE, value |-> 0]
    ELSE [panic |-> FALSE, value |-> Quo(acc.nodeScore, acc.weightSum)]

\* The orders in which a range over a map with these keys may visit them.
Orders(keys) ==
    {o \in [1..Cardinality(keys) -> keys] :
        \A i, j \in 1..Cardinality(keys) : o[i] = o[j] => i = j}

\* The closure resourceScorer returns, applied to an allocatable view, the
\* map being ranged over in the given order.
scorer(resToWeightMap, mode, order, allocable) ==
    LET acc == Loop(order, [nodeScore |-> 0, weightSum |-> 0],
                    resToWeightMap, mode, allocable)
    IN  [nodeScore |-> acc.nodeScore,
         weightSum |-> acc.weightSum,
         panic     |-> Return(acc).panic,
         value     |-> Return(acc).value]

(***************************************************************************)
(* The state: the plugin, the scheduling round in progress and the last    *)
(* call made on the plugin.                                                *)
(***************************************************************************)
VARIABLES
    plugin,      \* what NewAllocatable returned, NilPlugin before and on error
    call,        \* the last call of NewAllocatable or of the scorer closure
    phase,       \* "new", "failed", "ready", "scoring", "normalize"
    snapshot,    \* the round's node snapshot: node -> allocatable view
    pc,          \* per node, where its Score call stands
    todo,        \* per Score call, the map keys the range has not visited
    locals,      \* per Score call, the closure's nodeScore and weightSum
    returned,    \* per node, what its Score call returned
    scores,      \* the framework.NodeScoreList handed to NormalizeScore
    rawScores,   \* that list as it was before the first NormalizeScore
    prevScores,  \* that list as it was before the last NormalizeScore
    normCalls    \* NormalizeScore calls made on the list

vars == <<plugin, call, phase, snapshot, pc, todo, locals, returned,
          scores, rawScores, prevScores, normCalls>>

roundVars == <<snapshot, pc, todo, locals, returned>>

listVars == <<scores, rawScores, prevScores, normCalls>>

\* Bounds of the model.
NumNodes == 2

MaxResources == 3

MaxScores == 3

MaxNormCalls == 2

Nodes == 1..NumNodes

ResourceNames == {"cpu", "memory", "pods"}

\* Weights a configuration may carry, valid and invalid.
Weights == {-1, 0, 1, 2, MaxInt64}

\* Allocatable capacities of a node, up to a quarter of the word's range.
Capacities == {0, 1, 3, 2 ^ (IntBits - 2) - 1, 2 ^ (IntBits - 2)}

Modes == {NoMode, Least, Most}

\* The sequences over S of length at most n.
SeqUpTo(S, n) == UNION {[1..k -> S] : k \in 0..n}

\* The allocatable views over the given resource names and capacities.
Views(names, capacities) ==
    UNION {[present -> capacities] : present \in SUBSET names}

\* The arguments NewAllocatable may be given: none, an object of another
\* type, or NodeResourcesAllocatableArgs.
AllArgs ==
    {NilArgs, [Kind |-> "other"]} \cup
    [Kind      : {"NodeResourcesAllocatableArgs"},
     Mode      : Modes,
     Resources : SeqUpTo([Name : ResourceNames, Weight : Weights],
                         MaxResources)]

\* The configurations the scheduling rounds are run with.
RoundArgs ==
    {NilArgs} \cup
    [Kind      : {"NodeResourcesAllocatableArgs"},
     Mode      : Modes,
     Resources : {<< >>,
                  <<[Name |-> "cpu", Weight |-> 0]>>,
                  <<[Name |-> "cpu", Weight |-> 1],
                    [Name |-> "memory", Weight |-> 2]>>}]

NoNode == [Kind |-> "missing"]

RoundViews == Views({"cpu", "memory"}, {5})

NoCall == [op |-> "none"]

NoLocals == [nodeScore |-> 0, weightSum |-> 0]

NoReturn == [status |-> "none", panic |-> FALSE, value |-> 0]

IdleRound ==
    /\ snapshot = [n \in Nodes |-> NoNode]
    /\ pc = [n \in Nodes |-> "idle"]
    /\ todo = [n \in Nodes |-> {}]
    /\ locals = [n \in Nodes |-> NoLocals]
    /\ returned = [n \in Nodes |-> NoReturn]

NoList ==
    /\ scores = << >>
    /\ rawScores = << >>
    /\ prevScores = << >>
    /\ normCalls = 0

Init ==
    /\ plugin = NilPlugin
    /\ call = NoCall
    /\ phase = "new"
    /\ IdleRound
    /\ NoList

(***************************************************************************)
(* Actions                                                                 *)
(***************************************************************************)

\* NewAllocatable(ctx, allocArgs, h), allocArgs being any of the given
\* arguments.
NewAllocatable(arguments) ==
    /\ phase = "new"
    /\ \E allocArgs \in arguments :
          LET res == NewAllocatableResult(allocArgs)
          IN  /\ plugin' = res.plugin
              /\ call' = [op        |-> "NewAllocatable",
                          allocArgs |-> allocArgs,
                          args      |-> res.args,
                          err       |-> res.err]
              /\ phase' = IF res.err = NoError THEN "ready" ELSE "failed"
    /\ UNCHANGED <<roundVars, listVars>>

\* An invocation of the closure resourceScorer returned, on any allocatable
\* view, the range visiting the map's keys in any order.  The closure keeps
\* nothing between invocations (its locals are declared inside it), so one
\* invocation per behaviour covers them all.
ScorerCall ==
    /\ phase = "ready"
    /\ call = NoCall
    /\ \E allocable \in Views(ResourceNames, Capacities) :
          \E order \in Orders(DOMAIN plugin.resourceToWeightMap) :
             call' = [op        |-> "scorer",
                      allocable |-> allocable,
                      order     |-> order,
                      ret       |-> scorer(plugin.resourceToWeightMap,
                                           plugin.mode, order, allocable)]
    /\ UNCHANGED <<plugin, phase, roundVars, listVars>>

\* The framework starts a scheduling round over a snapshot of the nodes, a
\* candidate node being in the snapshot or missing from it.
BeginRound ==
    /\ phase = "ready"
    /\ phase' = "scoring"
    /\ snapshot' \in [Nodes -> RoundViews \cup {NoNode}]
    /\ pc' = [n \in Nodes |-> "idle"]
    /\ todo' = [n \in Nodes |-> {}]
    /\ locals' = [n \in Nodes |-> NoLocals]
    /\ returned' = [n \in Nodes |-> NoReturn]
    /\ UNCHANGED <<plugin, call, listVars>>

\* Locals declared outside the closure: one set shared by all invocations.
SlotShared(n) == 1

\* The locals an invocation of the closure works on: its own, declared
\* inside the closure.
Slot(n) == n

\* Score(ctx, state, pod, nodeName) up to the call of the scorer: the node is
\* looked up in the snapshot, and a node not found ends the call in an error.
Score(n) ==
    /\ phase = "scoring"
    /\ pc[n] = "idle"
    /\ IF snapshot[n] = NoNode
       THEN /\ returned' = [returned EXCEPT
                   ![n] = [status |-> "Error", panic |-> FALSE, value |-> 0]]
            /\ pc' = [pc EXCEPT ![n] = "done"]
            /\ UNCHANGED <<todo, locals>>
       ELSE /\ pc' = [pc EXCEPT ![n] = "loop"]
            /\ todo' = [todo EXCEPT ![n] = DOMAIN plugin.resourceToWeightMap]
            /\ locals' = [locals EXCEPT ![Slot(n)] = NoLocals]
            /\ UNCHANGED returned
    /\ UNCHANGED <<plugin, call, phase, snapshot, listVars>>

\* One iteration of the closure's range over resToWeightMap, for node n.
ScorerIterate(n) ==
    /\ phase = "scoring"
    /\ pc[n] = "loop"
    /\ \E resource \in todo[n] :
          /\ locals' = [locals EXCEPT
                ![Slot(n)] = LoopBody(locals[Slot(n)], resource,
                                      plugin.resourceToWeightMap, plugin.mode,
                                      snapshot[n])]
          /\ todo' = [todo EXCEPT ![n] = @ \ {resource}]
    /\ UNCHANGED <<plugin, call, phase, snapshot, pc, returned, listVars>>

\* The closure's return, which is Score's: nodeScore / weightSum.
ScorerReturn(n) ==
    /\ phase = "scoring"
    /\ pc[n] = "loop"
    /\ todo[n] = {}
    /\ returned' = [returned EXCEPT
          ![n] = [status |-> IF Return(locals[Slot(n)]).panic
                             THEN "panic" ELSE "Success",
                  panic  |-> Return(locals[Slot(n)]).panic,
                  value  |-> Return(locals[Slot(n)]).value]]
    /\ pc' = [pc EXCEPT ![n] = "done"]
    /\ UNCHANGED <<plugin, call, phase, snapshot, todo, locals, listVars>>

AllReturned == \A n \in Nodes : pc[n] = "done"

AllSucceeded == \A n \in Nodes : returned[n].status = "Success"

\* Every Score call of the round has succeeded: the framework collects the
\* scores, in node order, into the list it will have normalized.
CollectScores ==
    /\ phase = "scoring"
    /\ AllReturned
    /\ AllSucceeded
    /\ phase' = "normalize"
    /\ scores' = [n \in Nodes |-> [Name |-> n, Score |-> returned[n].value]]
    /\ rawScores' = scores'
    /\ prevScores' = scores'
    /\ normCalls' = 0
    /\ UNCHANGED <<plugin, call, roundVars>>

\* A Score call of the round has failed: the round is given up.
AbortRound ==
    /\ phase = "scoring"
    /\ AllReturned
    /\ ~AllSucceeded
    /\ phase' = "ready"
    /\ snapshot' = [n \in Nodes |-> NoNode]
    /\ pc' = [n \in Nodes |-> "idle"]
    /\ todo' = [n \in Nodes |-> {}]
    /\ locals' = [n \in Nodes |-> NoLocals]
    /\ returned' = [n \in Nodes |-> NoReturn]
    /\ UNCHANGED <<plugin, call, listVars>>

\* NormalizeScore(ctx, state, pod, scores), at most `limit` times on a list.
NormalizeScoreCall(limit) ==
    /\ phase = "normalize"
    /\ normCalls < limit
    /\ prevScores' = scores
    /\ scores' = NormalizeScore(scores)
    /\ normCalls' = normCalls + 1
    /\ UNCHANGED <<plugin, call, phase, rawScores, roundVars>>

\* The round is over; nothing of it is kept.
EndRound ==
    /\ phase = "normalize"
    /\ normCalls = 1
    /\ phase' = "ready"
    /\ snapshot' = [n \in Nodes |-> NoNode]
    /\ pc' = [n \in Nodes |-> "idle"]
    /\ todo' = [n \in Nodes |-> {}]
    /\ locals' = [n \in Nodes |-> NoLocals]
    /\ returned' = [n \in Nodes |-> NoReturn]
    /\ scores' = << >>
    /\ rawScores' = << >>
    /\ prevScores' = << >>
    /\ normCalls' = 0
    /\ UNCHANGED <<plugin, call>>

(***************************************************************************)
(* Specifications                                                          *)
(***************************************************************************)

\* The plugin's life: construction, then scheduling rounds in which the
\* Score calls of the nodes interleave and NormalizeScore runs once.
Next ==
    \/ NewAllocatable(RoundArgs)
    \/ BeginRound
    \/ \E n \in Nodes : Score(n)
    \/ \E n \in Nodes : ScorerIterate(n)
    \/ \E n \in Nodes : ScorerReturn(n)
    \/ CollectScores
    \/ AbortRound
    \/ NormalizeScoreCall(1)
    \/ EndRound

Spec == Init /\ [][Next]_vars

\* Construction from any arguments.
NextNew == NewAllocatable(AllArgs)

SpecNew == Init /\ [][NextNew]_vars

\* Any plugin NewAllocatable returns without an error.
InitScorer ==
    /\ \E allocArgs \in AllArgs :
          /\ NewAllocatableResult(allocArgs).err = NoError
          /\ plugin = NewAllocatableResult(allocArgs).plugin
    /\ call = NoCall
    /\ phase = "ready"
    /\ IdleRound
    /\ NoList

NextScorer == ScorerCall

\* The scorer closure of any plugin NewAllocatable returns, invoked on any
\* allocatable view.
SpecScorer == InitScorer /\ [][NextScorer]_vars

\* The raw scores of one round: every node scored under the same mode, so
\* all non-negative (Most) or all non-positive (Least); MinInt64 is what a
\* wrapped sum can return.
Magnitudes ==
    {0, 1, 2, 3, 50, 100, MaxInt64 \div 100, MaxInt64 \div 100 + 1,
     2 ^ (IntBits - 7), MaxInt64}

RawScoreValues ==
    {Magnitudes, {-m : m \in Magnitudes} \cup {MinInt64}}

InitNormalize ==
    /\ plugin = NilPlugin
    /\ call = NoCall
    /\ phase = "normalize"
    /\ IdleRound
    /\ \E values \in RawScoreValues :
          \E raw \in SeqUpTo(values, MaxScores) :
             scores = [i \in 1..Len(raw) |-> [Name |-> i, Score |-> raw[i]]]
    /\ rawScores = scores
    /\ prevScores = scores
    /\ normCalls = 0

NextNormalize == NormalizeScoreCall(MaxNormCalls)

\* NormalizeScore applied, repeatedly, to any list of raw scores.
SpecNormalize == InitNormalize /\ [][NextNormalize]_vars

(***************************************************************************)
(* Properties of NormalizeScore (SpecNormalize)                            *)
(***************************************************************************)

RawValues == {rawScores[i].Score : i \in 1..Len(rawScores)}

SetMax(S) == CHOOSE x \in S : \A y \in S : y <= x

SetMin(S) == CHOOSE x \in S : \A y \in S : x <= y

NormalizedOnce == phase = "normalize" /\ normCalls = 1

\* C1: after NormalizeScore on a list with at least two distinct raw scores,
\* every element whose raw score was the lowest has score MinNodeScore and
\* every element whose raw score was the highest has score MaxNodeScore.
C1_LowestToMinHighestToMax ==
    (NormalizedOnce /\ Cardinality(RawValues) >= 2) =>
        \A i \in 1..Len(rawScores) :
            /\ rawScores[i].Score = SetMin(RawValues)
                  => scores[i].Score = MinNodeScore
            /\ rawScores[i].Score = SetMax(RawValues)
                  => scores[i].Score = MaxNodeScore

\* C2: after NormalizeScore on a non-empty list whose elements all have the
\* same raw score (a single-element list included), every element's score is
\* MinNodeScore.
C2_EqualScoresToMin ==
    (NormalizedOnce /\ Cardinality(RawValues) = 1) =>
        /\ Len(scores) = Len(rawScores)
        /\ \A i \in 1..Len(scores) :
              /\ scores[i].Score = MinNodeScore
              /\ scores[i].Name = rawScores[i].Name

\* NormalizeScore has run on a list of several nodes that all scored -50, and
\* each now has MinNodeScore.
C2_Witness ==
    /\ NormalizedOnce
    /\ Len(rawScores) >= 2
    /\ RawValues = {-50}
    /\ \A i \in 1..Len(scores) : scores[i].Score = MinNodeScore

\* C3: after NormalizeScore on any list of raw scores, every element's score
\* lies between MinNodeScore and MaxNodeScore.
C3_ScoresWithinRange ==
    NormalizedOnce =>
        \A i \in 1..Len(scores) :
            /\ MinNodeScore <= scores[i].Score
            /\ scores[i].Score <= MaxNodeScore

ListValues(list) == {list[i].Score : i \in 1..Len(list)}

AlreadyNormalized(list) ==
    /\ list # << >>
    /\ SetMax(ListValues(list)) = MaxNodeScore
    /\ SetMin(ListValues(list)) = MinNodeScore

\* NormalizeScore leaves a list whose highest score is MaxNodeScore and whose
\* lowest score is MinNodeScore as it is.
NormalizedListUnchanged ==
    (phase = "normalize" /\ normCalls >= 1 /\ AlreadyNormalized(prevScores))
        => scores = prevScores

\* C9: NormalizeScore leaves an already-normalized list unchanged, and so on
\* every list with at least two distinct raw scores normalizing twice gives
\* the same list as normalizing once.
C9_Idempotent ==
    /\ NormalizedListUnchanged
    /\ (phase = "normalize" /\ normCalls = 2 /\ Cardinality(RawValues) >= 2)
          => scores = prevScores

(***************************************************************************)
(* Properties of NewAllocatable (SpecNew)                                  *)
(***************************************************************************)

Constructed == call.op = "NewAllocatable"

SuppliedResources ==
    IF Constructed /\ call.allocArgs.Kind = "NodeResourcesAllocatableArgs"
    THEN call.allocArgs.Resources
    ELSE << >>

SuppliesInvalidWeight ==
    \E i \in 1..Len(SuppliedResources) : SuppliedResources[i].Weight <= 0

\* C5: NewAllocatable given a resource list in which some weight is 0 or
\* negative returns an error naming such a resource and its weight, and no
\* plugin; every plugin it does return has positive weights only.
C5_InvalidWeightRejected ==
    /\ SuppliesInvalidWeight =>
          /\ plugin = NilPlugin
          /\ phase = "failed"
          /\ call.err.Kind = "weight"
          /\ call.err.Weight <= 0
          /\ \E i \in 1..Len(SuppliedResources) :
                /\ SuppliedResources[i].Name = call.err.Name
                /\ SuppliedResources[i].Weight = call.err.Weight
    /\ plugin # NilPlugin =>
          \A r \in DOMAIN plugin.resourceToWeightMap :
              plugin.resourceToWeightMap[r] > 0

\* NewAllocatable has refused a list whose first weight is valid and whose
\* second weight is 0.
C5_Witness ==
    /\ Constructed
    /\ Len(SuppliedResources) = 2
    /\ SuppliedResources[1].Weight = 2
    /\ SuppliedResources[2].Weight = 0
    /\ plugin = NilPlugin
    /\ call.err = [Kind |-> "weight", Name |-> SuppliedResources[2].Name,
                   Weight |-> 0]

(***************************************************************************)
(* Properties of the scorer closure (SpecScorer)                           *)
(***************************************************************************)

Scored == call.op = "scorer"

\* Sum over the keys of sign * capacity * weight, in the integers.
RECURSIVE WeightedCapacity(_, _, _, _)
WeightedCapacity(keys, resToWeightMap, sign, allocable) ==
    IF keys = {} THEN 0
    ELSE LET r == CHOOSE x \in keys : TRUE
         IN  sign * Lookup(allocable, r) * resToWeightMap[r]
             + WeightedCapacity(keys \ {r}, resToWeightMap, sign, allocable)

\* Sum over the keys of the weights, in the integers.
RECURSIVE TotalWeight(_, _)
TotalWeight(keys, resToWeightMap) ==
    IF keys = {} THEN 0
    ELSE LET r == CHOOSE x \in keys : TRUE
         IN  resToWeightMap[r] + TotalWeight(keys \ {r}, resToWeightMap)

Sign(mode) == IF mode = Most THEN 1 ELSE -1

\* Sum(sign * capacity(r) * weight(r)) / Sum(weight(r)), truncated toward 0.
WeightedAverage(resToWeightMap, mode, allocable) ==
    TruncDiv(WeightedCapacity(DOMAIN resToWeightMap, resToWeightMap,
                              Sign(mode), allocable),
             TotalWeight(DOMAIN resToWeightMap, resToWeightMap))

\* C6: whenever the scorer of a plugin NewAllocatable returned reaches its
\* division, weightSum > 0.
C6_WeightSumPositive ==
    Scored => call.ret.weightSum > 0

\* C7: under mode Least or Most the scorer returns
\* Sum(sign * capacity * weight) / Sum(weight) truncated toward zero, a
\* missing capacity counting as 0, whatever the order of iteration.
C7_WeightedAverage ==
    (Scored /\ plugin.mode \in {Least, Most}) =>
        /\ ~call.ret.panic
        /\ call.ret.value = WeightedAverage(plugin.resourceToWeightMap,
                                            plugin.mode, call.allocable)
        /\ \A order \in Orders(DOMAIN plugin.resourceToWeightMap) :
              scorer(plugin.resourceToWeightMap, plugin.mode, order,
                     call.allocable).value = call.ret.value

\* The configured resources with a nonzero capacity in the view.
NonZero(allocable) ==
    {r \in DOMAIN plugin.resourceToWeightMap : Lookup(allocable, r) # 0}

\* C8: in a view where exactly one configured resource has nonzero capacity,
\* a larger capacity of that resource gives a score that is no lower under
\* Most and no higher under Least.
C8_Monotone ==
    (Scored /\ plugin.mode \in {Least, Most}
            /\ Cardinality(NonZero(call.allocable)) = 1) =>
        \A r \in NonZero(call.allocable) :
           \A capacity \in Capacities :
              capacity > call.allocable[r] =>
                 LET more == scorer(plugin.resourceToWeightMap, plugin.mode,
                                    call.order,
                                    Put(call.allocable, r, capacity)).value
                 IN  /\ plugin.mode = Most => more >= call.ret.value
                     /\ plugin.mode = Least => more <= call.ret.value

(***************************************************************************)
(* Properties of the scheduling rounds (Spec)                              *)
(***************************************************************************)

NoOverride ==
    /\ Constructed
    /\ \/ call.allocArgs = NilArgs
       \/ /\ call.allocArgs.Kind = "NodeResourcesAllocatableArgs"
          /\ call.allocArgs.Mode = NoMode

ScoreSucceeded(n) == pc[n] = "done" /\ returned[n].status = "Success"

\* C4: a plugin built from nil arguments or from arguments with an empty
\* mode scores in mode Least: each resource scores -capacity and a node's raw
\* score is the negated weighted average of its allocatable capacities.
C4_DefaultModeLeast ==
    NoOverride =>
        \A n \in Nodes :
           ScoreSucceeded(n) =>
              /\ \A r \in DOMAIN plugin.resourceToWeightMap :
                    score(Lookup(snapshot[n], r), plugin.mode)
                       = -Lookup(snapshot[n], r)
              /\ returned[n].value =
                    WeightedAverage(plugin.resourceToWeightMap, Least,
                                    snapshot[n])

\* Some order of iteration over the keys.
AnOrder(keys) == CHOOSE order \in Orders(keys) : TRUE

\* The score of node n when its Score call runs alone.
Sequential(n) ==
    scorer(plugin.resourceToWeightMap, plugin.mode,
           AnOrder(DOMAIN plugin.resourceToWeightMap), snapshot[n])

RoundInvariant ==
    /\ phase \in {"ready", "scoring", "normalize"} =>
          plugin = NewAllocatableResult(call.allocArgs).plugin
    /\ \A n \in Nodes :
          ScoreSucceeded(n) =>
             /\ ~Sequential(n).panic
             /\ returned[n].value = Sequential(n).value
    /\ (phase = "normalize" /\ Constructed) =>
          /\ rawScores = [n \in Nodes |->
                            [Name |-> n, Score |-> Sequential(n).value]]
          /\ normCalls = 0 => scores = rawScores
          /\ normCalls = 1 => scores = NormalizeScore(rawScores)

ConfigurationKept ==
    phase # "new" => plugin' = plugin

\* C10: however the Score calls of a round interleave, no Score or
\* NormalizeScore call changes the weights or the mode fixed at construction,
\* each node's raw score is the one its call gives when run alone, and the
\* normalized list is a function of the round's inputs only.
C10_RoundsIndependent ==
    []RoundInvariant /\ [][ConfigurationKept]_vars

\* Two Score calls are under way at once, each having visited one of the two
\* configured resources and accumulated a nonzero sum.
C10_Witness ==
    /\ phase = "scoring"
    /\ \A n \in {1, 2} :
          /\ pc[n] = "loop"
          /\ Cardinality(todo[n]) = 1
          /\ locals[n].nodeScore # 0
    /\ locals[1] # locals[2]

=============================================================================
